---- MODULE Spec2Model ----
(***************************************************************************)
(* A model of wc-compiler (src/src/main.rs and its modules): one run of    *)
(* main() as a sequence of steps, and successive runs over the same output *)
(* directory (state.json, data.json, posters/).                            *)
(*                                                                         *)
(* Instants are minutes on one UTC axis; calendar dates are day numbers,   *)
(* day 0 being a Monday.  Option<T> is a sequence of length at most one.   *)
(***************************************************************************)
EXTENDS Integers, Sequences, FiniteSets, TLC

VARIABLES
    state_json,     \* output/state.json: the persisted Vec<state::Poster>
    data_json,      \* output/data.json: None, or the compiled document
    files,          \* output/posters/: file name -> digest of its content
    pc,             \* position of main()
    runs,           \* number of runs started
    now,            \* Utc::now() of the current run (main.rs:76)
    posters,        \* Posters.posters
    by_sha256,      \* Posters.by_sha256
    errors,         \* the AtomicUsize the miette hook counts into
    diags,          \* what the run printed to stderr
    event_files,    \* read results of the *.toml files, in BTreeSet order
    input_events,   \* ids of the events that parsed
    cur,            \* index of the loop in progress
    event,          \* the input::Event under prepare_event
    poster,         \* prepare_event's local `poster`
    todo,           \* poster paths the current phase still converts
    out,            \* the output::Event under construction
    output_events,  \* main's output_events
    written,        \* artifacts this run has replaced
    exit_code,      \* the ExitCode main returned
    calls,          \* the last two try_get_output calls of the run
    used,           \* event files read so far, over all runs
    zones,          \* main's `zones`: zone name -> the Rules of its Zone
    panicked,       \* the panic message of the run, if it panicked
    files_at_start  \* output/posters/ as the current run found it

vars == <<state_json, data_json, files, pc, runs, now, posters, by_sha256,
          errors, diags, event_files, input_events, cur, event, poster, todo,
          out, output_events, written, exit_code, calls, used, zones, panicked, files_at_start>>

(***************************************************************************)
(* Bounds of the model.                                                    *)
(***************************************************************************)
MaxRuns == 2
MaxEvents == 2
MaxNew == 2
MaxDate == 3

(***************************************************************************)
(* Program constants.                                                      *)
(***************************************************************************)
Capacity == 255
U8 == 256
U16 == 65536
MaxDimension == 2048
MinutesPerDay == 1440

None == <<>>
Some(x) == <<x>>
IsSome(o) == o # <<>>
Get(o) == o[1]

Min(S) == CHOOSE x \in S : \A y \in S : x <= y

(***************************************************************************)
(* state.rs and the Posters cache (main.rs:556-643).                       *)
(***************************************************************************)
Poster(h, t) == [sha256 |-> h, last_used |-> t]

\* format!("{index:02x}"): the two hex digits of a slot number
Hex2(index) == <<index \div 16, index % 16>>

\* HashMap::insert / VacantEntry::insert
Insert(by, h, index) ==
    [k \in DOMAIN by \cup {h} |-> IF k = h THEN index ELSE by[k]]
\* HashMap::remove
Remove(by, h) == [k \in DOMAIN by \ {h} |-> by[k]]

EmptyMap == [k \in {} |-> 0]

\* the loop of Posters::load, by_sha256.insert(poster.sha256, i as u8):
\* a key ends with the index of the last entry that holds it
\* the load numbering slots from one instead of zero
BySha256OfFromOne(ps) ==
    [h \in {ps[i].sha256 : i \in 1..Len(ps)} |->
        (CHOOSE i \in 1..Len(ps) : ps[i].sha256 = h) % U8]

BySha256Of(ps) ==
    [h \in {ps[i].sha256 : i \in 1..Len(ps)} |->
        LET last == CHOOSE i \in 1..Len(ps) :
                        /\ ps[i].sha256 = h
                        /\ \A j \in (i + 1)..Len(ps) : ps[j].sha256 # h
        IN (last - 1) % U8]

\* posters.iter().enumerate().min_by_key(|(_, p)| p.last_used).unwrap().0:
\* Iterator::min_by_key keeps the first of the entries with the least key
\* among the entries with the least last_used, the last one
MinByKeyLast(ps) ==
    LET least == Min({ps[i].last_used : i \in 1..Len(ps)})
    IN (CHOOSE i \in 1..Len(ps) :
            /\ ps[i].last_used = least
            /\ \A j \in (i + 1)..Len(ps) : ps[j].last_used # least) - 1

MinByKey(ps) ==
    LET least == Min({ps[i].last_used : i \in 1..Len(ps)})
    IN (CHOOSE i \in 1..Len(ps) :
            /\ ps[i].last_used = least
            /\ \A j \in 1..(i - 1) : ps[j].last_used # least) - 1

\* fs::copy(&poster.source, directory.join(name)): `copy` is its outcome
FsCopy(fs, name, hash, copy) ==
    CASE copy = "ok"      -> [n \in DOMAIN fs \cup {name} |->
                                 IF n = name THEN Some(hash) ELSE fs[n]]
      [] OTHER            -> fs

CopyOutcomes == {"ok", "failed"}

\* the Entry::Occupied arm
InternOccupied(ps, by, fs, t, info) ==
    LET index == by[info.hash] IN
    [posters   |-> [ps EXCEPT ![index + 1].last_used = t],
     by_sha256 |-> by,
     files     |-> fs,
     index     |-> index,
     copied    |-> FALSE,
     failed    |-> FALSE]

\* the Entry::Vacant arm with posters.len() < 255
InternPush(ps, by, fs, t, info, copy) ==
    LET index == Len(ps) % U8 IN
    [posters   |-> Append(ps, Poster(info.hash, t)),
     by_sha256 |-> Insert(by, info.hash, index),
     files     |-> FsCopy(fs, Hex2(index), info.hash, copy),
     index     |-> index,
     copied    |-> TRUE,
     failed    |-> copy # "ok"]

\* an eviction that leaves the evicted digest in the map
InternEvictKeepOld(ps, by, fs, t, info, copy) ==
    LET index == MinByKey(ps) % U8 IN
    [posters   |-> [ps EXCEPT ![index + 1] = Poster(info.hash, t)],
     by_sha256 |-> Insert(by, info.hash, index),
     files     |-> FsCopy(fs, Hex2(index), info.hash, copy),
     index     |-> index,
     copied    |-> TRUE,
     failed    |-> copy # "ok"]

\* the Entry::Vacant arm with a full catalogue
InternEvict(ps, by, fs, t, info, copy) ==
    LET index == MinByKey(ps) % U8
        old   == ps[index + 1].sha256
    IN
    [posters   |-> [ps EXCEPT ![index + 1] = Poster(info.hash, t)],
     by_sha256 |-> Remove(Insert(by, info.hash, index), old),
     files     |-> FsCopy(fs, Hex2(index), info.hash, copy),
     index     |-> index,
     copied    |-> TRUE,
     failed    |-> copy # "ok"]

\* a capacity test that lets a full catalogue grow
TryGetOutputOffByOne(ps, by, fs, t, info, copy) ==
    LET r == IF info.hash \in DOMAIN by
             THEN InternOccupied(ps, by, fs, t, info)
             ELSE IF Len(ps) <= Capacity
                  THEN InternPush(ps, by, fs, t, info, copy)
                  ELSE InternEvict(ps, by, fs, t, info, copy)
    IN [posters   |-> r.posters,
        by_sha256 |-> r.by_sha256,
        files     |-> r.files,
        hash      |-> info.hash,
        copied    |-> r.copied,
        failed    |-> r.failed,
        ret       |-> IF r.failed THEN None ELSE Some(r.index)]

\* a call that returns the slot whether or not the copy succeeded
TryGetOutputIgnoreCopy(ps, by, fs, t, info, copy) ==
    LET r == IF info.hash \in DOMAIN by
             THEN InternOccupied(ps, by, fs, t, info)
             ELSE IF Len(ps) < Capacity
                  THEN InternPush(ps, by, fs, t, info, copy)
                  ELSE InternEvict(ps, by, fs, t, info, copy)
    IN [posters   |-> r.posters,
        by_sha256 |-> r.by_sha256,
        files     |-> r.files,
        hash      |-> info.hash,
        copied    |-> r.copied,
        failed    |-> r.failed,
        ret       |-> Some(r.index)]

\* Posters::try_get_output: the new cache, and ret = Option<PosterInfo.number>
TryGetOutput(ps, by, fs, t, info, copy) ==
    LET r == IF info.hash \in DOMAIN by
             THEN InternOccupied(ps, by, fs, t, info)
             ELSE IF Len(ps) < Capacity
                  THEN InternPush(ps, by, fs, t, info, copy)
                  ELSE InternEvict(ps, by, fs, t, info, copy)
    IN [posters   |-> r.posters,
        by_sha256 |-> r.by_sha256,
        files     |-> r.files,
        hash      |-> info.hash,
        copied    |-> r.copied,
        failed    |-> r.failed,
        ret       |-> IF r.failed THEN None ELSE Some(r.index)]

(***************************************************************************)
(* Diagnostics (error.rs) and the report hook (main.rs:289-306).           *)
(***************************************************************************)
\* Diagnostic::severity() of each report the program prints with {:?}:
\* the three structs of error.rs that declare severity("warning"), and
\* None for every other report
Severity(kind) ==
    IF kind \in {"MultiplePosters", "ConfirmedOutOfRange", "CanceledOutOfRange"}
    THEN Some("warning")
    ELSE None

\* a hook that counts only the reports that declare severity(error)
HandlerDebugDeclared(errs, kind) ==
    IF Severity(kind) = Some("error") THEN errs + 1 ELSE errs

\* Handler::debug
HandlerDebug(errs, kind) ==
    LET severity == IF IsSome(Severity(kind)) THEN Get(Severity(kind)) ELSE "error"
    IN IF severity = "error" THEN errs + 1 ELSE errs

\* one line of stderr: a miette Report (printed through the hook) or a
\* plain std error (printed by its own Debug)
Diag(kind, ev, date) == [kind |-> kind, ev |-> ev, date |-> date, report |-> TRUE]
Plain(kind, ev) == [kind |-> kind, ev |-> ev, date |-> None, report |-> FALSE]

RECURSIVE Count(_, _)
\* the counter after printing the lines of ds in order
Count(errs, ds) ==
    IF ds = <<>> THEN errs
    ELSE Count(IF Head(ds).report THEN HandlerDebug(errs, Head(ds).kind) ELSE errs,
               Tail(ds))

Range(s) == {s[i] : i \in 1..Len(s)}

(***************************************************************************)
(* Time zones: chrono_tz::Tz as used by main.rs:348 and main.rs:524-536.   *)
(* A zone is its standard and daylight offsets and the local wall-clock    *)
(* minute at which, on gap_day, the clock is set forward.                  *)
(***************************************************************************)
Tz(name) ==
    CASE name = "America/New_York" ->
             [std |-> -300, dst |-> -240, forward |-> TRUE, gap_day |-> 2, gap_at |-> 120]
      [] name = "America/Havana" ->
             [std |-> -300, dst |-> -240, forward |-> TRUE, gap_day |-> 2, gap_at |-> 0]
      [] OTHER ->
             [std |-> 0, dst |-> 0, forward |-> FALSE, gap_day |-> 0, gap_at |-> 0]

\* the keys of the table collect_zones built (time.rs:79-107)
ZoneTable == {"UTC", "America/New_York", "America/Havana", "Factory"}
\* the names Tz::from_str accepts
TzNames == {"UTC", "America/New_York", "America/Havana"}

\* the UTC offset in force at instant u
OffsetAt(z, u) ==
    IF z.forward /\ u >= z.gap_day * MinutesPerDay + z.gap_at - z.std
    THEN z.dst ELSE z.std

\* date.and_time(time).and_local_timezone(tz).earliest()
LocalEarliest(date, time, z) ==
    LET local == date * MinutesPerDay + time
        cands == {u \in {local - z.std, local - z.dst} : u + OffsetAt(z, u) = local}
    IN IF cands = {} THEN None ELSE Some(Min(cands))

\* date.weekday(), Monday = 0
Weekday(date) == date % 7

\* bounds that exclude start_date itself
GetTimeForDayStrict(ev, date, z, force) ==
    IF IsSome(ev.start_date) /\ date <= Get(ev.start_date) THEN None
    ELSE IF IsSome(ev.end_date) /\ Get(ev.end_date) < date THEN None
    ELSE LET day == ev.days[Weekday(date)] IN
         IF ~force /\ ~IsSome(day) THEN None
         ELSE LET time == IF IsSome(day) /\ IsSome(Get(day).start)
                          THEN Get(Get(day).start) ELSE ev.start
              IN LocalEarliest(date, time, z)

\* a lookup that falls back to the base start time whatever `force` is
GetTimeForDayDefault(ev, date, z, force) ==
    IF IsSome(ev.start_date) /\ date < Get(ev.start_date) THEN None
    ELSE IF IsSome(ev.end_date) /\ Get(ev.end_date) < date THEN None
    ELSE LET day == ev.days[Weekday(date)] IN
         LET time == IF IsSome(day) /\ IsSome(Get(day).start)
                     THEN Get(Get(day).start) ELSE ev.start
         IN LocalEarliest(date, time, z)

\* Event::get_time_for_day
GetTimeForDay(ev, date, z, force) ==
    IF IsSome(ev.start_date) /\ date < Get(ev.start_date) THEN None
    ELSE IF IsSome(ev.end_date) /\ Get(ev.end_date) < date THEN None
    ELSE LET day == ev.days[Weekday(date)] IN
         IF ~force /\ ~IsSome(day) THEN None
         ELSE LET time == IF IsSome(day) /\ IsSome(Get(day).start)
                          THEN Get(Get(day).start) ELSE ev.start
              IN LocalEarliest(date, time, z)

(***************************************************************************)
(* The zone table: time::collect_zones (time.rs:37-109).  A database is    *)
(* its files, each a sequence of line shapes, and the timespans the table  *)
(* builder derives for each zone: `first`, the offset of the unbounded     *)
(* first span, and `rest`, the later spans in ascending order of start.    *)
(***************************************************************************)
LimitDays == 1825
\* stands for i64::MIN, the start of the first span: below every instant
MinStart == -2000000000
I16 == 32768

Span(start, offset) == [start |-> start, offset |-> offset]

\* [(i64::MIN, &timespans.first)].chain(timespans.rest)
Spans(ts) == <<Span(MinStart, ts.first)>> \o ts.rest

\* binary_search_by_key(&now_ts, ..).unwrap_or_else(|i| i.saturating_sub(1)),
\* as a 0-based index
Current(spans, now_ts) ==
    IF \E i \in 1..Len(spans) : spans[i].start = now_ts
    THEN (CHOOSE i \in 1..Len(spans) : spans[i].start = now_ts) - 1
    ELSE LET i == Cardinality({j \in 1..Len(spans) : spans[j].start < now_ts})
         IN IF i = 0 THEN 0 ELSE i - 1

\* the Rule built from one retained span
Rule(span, now_ts) ==
    [start  |-> IF span.start > now_ts THEN Some(span.start) ELSE None,
     offset |-> IF span.offset # 0 /\ span.offset \in -I16..(I16 - 1)
                THEN Some(span.offset) ELSE None]

\* a horizon that keeps the span that starts at the limit
TransitionsInclusive(ts, now_ts) ==
    LET limit_ts == now_ts + LimitDays * MinutesPerDay
        spans    == Spans(ts)
        drained  == SubSeq(spans, Current(spans, now_ts) + 1, Len(spans))
        Before(span) == span.start <= limit_ts
        retained == SelectSeq(drained, Before)
    IN [i \in 1..Len(retained) |-> Rule(retained[i], now_ts)]

\* the offsets of one Zone: drain(0..current), retain(start < limit), map
Transitions(ts, now_ts) ==
    LET limit_ts == now_ts + LimitDays * MinutesPerDay
        spans    == Spans(ts)
        drained  == SubSeq(spans, Current(spans, now_ts) + 1, Len(spans))
        Before(span) == span.start < limit_ts
        retained == SelectSeq(drained, Before)
    IN [i \in 1..Len(retained) |-> Rule(retained[i], now_ts)]

\* a message that names the line by its index
FirstBadLineIndex(table) ==
    LET all == UNION {{<<f, l>> : l \in DOMAIN table.files[f].lines} :
                         f \in DOMAIN table.files}
        bad == {fl \in all :
                   table.files[fl[1]].lines[fl[2]] \in {"syntax", "rejected"}}
    IN IF bad = {} THEN None
       ELSE LET fl == CHOOSE x \in bad :
                         \A y \in bad : x[1] < y[1] \/ (x[1] = y[1] /\ x[2] <= y[2])
            IN Some([message |-> IF table.files[fl[1]].lines[fl[2]] = "syntax"
                                 THEN "Syntax error at" ELSE "Error at",
                     file |-> table.files[fl[1]].name,
                     line |-> fl[2] - 1])

\* the first line that LineParser or TableBuilder refuses, as the panic
\* message names it: file name and line_index + 1
FirstBadLine(table) ==
    LET all == UNION {{<<f, l>> : l \in DOMAIN table.files[f].lines} :
                         f \in DOMAIN table.files}
        bad == {fl \in all :
                   table.files[fl[1]].lines[fl[2]] \in {"syntax", "rejected"}}
    IN IF bad = {} THEN None
       ELSE LET fl == CHOOSE x \in bad :
                         \A y \in bad : x[1] < y[1] \/ (x[1] = y[1] /\ x[2] <= y[2])
            IN Some([message |-> IF table.files[fl[1]].lines[fl[2]] = "syntax"
                                 THEN "Syntax error at" ELSE "Error at",
                     file |-> table.files[fl[1]].name,
                     line |-> fl[2]])

\* collect_zones when no line is refused
CollectZonesOf(table, now_ts) ==
    [name \in DOMAIN table.zones |-> Transitions(table.zones[name], now_ts)]

(***************************************************************************)
(* DateSet (input.rs:179-194, output.rs:125-140) and the two filters of    *)
(* prepare_event (main.rs:464-516).                                        *)
(***************************************************************************)
All(b) == [tag |-> "All", all |-> b, dates |-> <<>>]
Dates(ds) == [tag |-> "Dates", all |-> FALSE, dates |-> ds]

RECURSIVE FilterFuture(_, _, _, _, _)
\* the for loop over an explicit list: the dates pushed to `future`, and
\* the dates reported out of range
FilterFuture(ev, ds, z, t, force) ==
    IF ds = <<>> THEN [future |-> <<>>, dropped |-> <<>>]
    ELSE LET rest == FilterFuture(ev, Tail(ds), z, t, force)
             time == GetTimeForDay(ev, Head(ds), z, force)
         IN IF ~IsSome(time)
            THEN [future |-> rest.future, dropped |-> <<Head(ds)>> \o rest.dropped]
            ELSE IF t < Get(time)
                 THEN [future |-> <<Head(ds)>> \o rest.future, dropped |-> rest.dropped]
                 ELSE rest

\* a filter that returns the list it built even when it is empty
CollapseNever(future) == Dates(future)

\* if future.is_empty() { All(false) } else { Dates(future) }
Collapse(future) == IF future = <<>> THEN All(FALSE) ELSE Dates(future)

\* both filters calling get_time_for_day with force = true
ConvertDateSetForced(ev, set, z, t, force) ==
    IF set.tag = "All" THEN [set |-> All(set.all), dropped |-> <<>>]
    ELSE LET f == FilterFuture(ev, set.dates, z, t, TRUE)
         IN [set |-> Collapse(f.future), dropped |-> f.dropped]

\* the match on event.confirmed (force = true) or event.canceled (force = false)
ConvertDateSet(ev, set, z, t, force) ==
    IF set.tag = "All" THEN [set |-> All(set.all), dropped |-> <<>>]
    ELSE LET f == FilterFuture(ev, set.dates, z, t, force)
         IN [set |-> Collapse(f.future), dropped |-> f.dropped]

RECURSIVE Reports(_, _, _)
\* one report per dropped date
Reports(kind, id, ds) ==
    IF ds = <<>> THEN <<>>
    ELSE <<Diag(kind, id, Some(Head(ds)))>> \o Reports(kind, id, Tail(ds))

\* start_date at local midnight (main.rs:520-530)
StartMidnight(ev, z) ==
    IF IsSome(ev.start_date) THEN LocalEarliest(Get(ev.start_date), 0, z) ELSE Some(0)
\* the day after end_date at local midnight (main.rs:531-540)
EndMidnight(ev, z) ==
    IF IsSome(ev.end_date) THEN LocalEarliest(Get(ev.end_date) + 1, 0, z) ELSE Some(0)

(***************************************************************************)
(* Poster files (main.rs:645-698, 769-796).                                *)
(***************************************************************************)
\* try_load_poster on an image file: Option<PosterInfo> and what it printed
TryLoadPoster(img, id) ==
    CASE img.status = "noopen"  -> [info |-> None, diags |-> <<Diag("PosterOpenFailed", id, None)>>]
      [] img.status = "noprobe" -> [info |-> None, diags |-> <<Diag("ImageUnreadable", id, None)>>]
      [] img.width > MaxDimension \/ img.height > MaxDimension ->
             [info |-> None, diags |-> <<Diag("ImageTooLarge", id, None)>>]
      [] img.status = "noread"  -> [info |-> None, diags |-> <<Diag("PosterReadFailed", id, None)>>]
      [] OTHER -> [info |-> Some([hash |-> img.hash,
                                  width |-> img.width % U16,
                                  height |-> img.height % U16]),
                   diags |-> <<>>]

\* a guess that keeps the last sibling it finds
GuessPosterLast(ev, id) ==
    LET present == {i \in 1..4 : <<"webp", "jpeg", "jpg", "png">>[i] \in DOMAIN ev.siblings}
        Max(S) == CHOOSE x \in S : \A y \in S : y <= x
    IN IF present = {} THEN [found |-> None, diags |-> <<>>]
       ELSE [found |-> Some(ev.siblings[<<"webp", "jpeg", "jpg", "png">>[Max(present)]]),
             diags |-> [i \in 1..(Cardinality(present) - 1) |->
                           Diag("MultiplePosters", id, None)]]

ImageExtensions == <<"webp", "jpeg", "jpg", "png">>

\* guess_poster: the first sibling in extension order, and one
\* MultiplePosters report for each later sibling
GuessPoster(ev, id) ==
    LET present == {i \in 1..Len(ImageExtensions) : ImageExtensions[i] \in DOMAIN ev.siblings}
    IN IF present = {} THEN [found |-> None, diags |-> <<>>]
       ELSE LET first == Min(present)
                later == {i \in present : i > first}
                RECURSIVE Extra(_)
                Extra(i) == IF i > Len(ImageExtensions) THEN <<>>
                            ELSE (IF i \in later
                                  THEN <<Diag("MultiplePosters", id, None)>>
                                  ELSE <<>>) \o Extra(i + 1)
            IN [found |-> Some(ev.siblings[ImageExtensions[first]]),
                diags |-> Extra(first + 1)]

(***************************************************************************)
(* The poster paths of an event, in the order prepare_event converts them. *)
(***************************************************************************)
\* convert_event_info reads value.poster
InfoPosters(info) == IF IsSome(info.poster) THEN <<Get(info.poster)>> ELSE <<>>

RECURSIVE DaysFrom(_, _)
\* convert_event_days: monday .. sunday, each day that is Some
DaysFrom(days, d) ==
    IF d > 6 THEN <<>>
    ELSE (IF IsSome(days[d]) THEN InfoPosters(Get(days[d])) ELSE <<>>)
         \o DaysFrom(days, d + 1)
DaysPosters(days) == DaysFrom(days, 0)

RECURSIVE LanguagesPosters(_)
\* the loop over event.languages (main.rs:452-462)
LanguagesPosters(ls) ==
    IF ls = <<>> THEN <<>>
    ELSE InfoPosters(Head(ls)) \o DaysPosters(Head(ls).days) \o LanguagesPosters(Tail(ls))

(***************************************************************************)
(* The descriptive fields of output::EventInfo, of which the model keeps   *)
(* `description`: convert_event_info copies each from its own scope.       *)
(***************************************************************************)
\* description: value.description.as_deref() (main.rs:758)
OutInfo(value) == [description |-> value.description]
\* convert_event_days, convert_event_day
OutDays(value) ==
    [d \in 0..6 |-> IF IsSome(value[d]) THEN Some(OutInfo(Get(value[d]))) ELSE None]
\* the output::EventLanguage of each language (main.rs:452-462)
OutLanguages(ls) ==
    [i \in 1..Len(ls) |-> [info |-> OutInfo(ls[i]), days |-> OutDays(ls[i].days)]]

(***************************************************************************)
(* The run: main() (main.rs:51-246).                                       *)
(***************************************************************************)
NoEvent == None
NoOut == [id |-> 0, poster |-> None, refs |-> <<>>,
          confirmed |-> All(TRUE), canceled |-> All(FALSE),
          info |-> [description |-> None], days |-> [d \in 0..6 |-> None],
          languages |-> <<>>, interned |-> <<>>, slots |-> <<>>]

\* the last two calls of try_get_output
Called(cs, r) ==
    LET c == [n |-> IF cs = <<>> THEN 1 ELSE cs[Len(cs)].n + 1,
              hash |-> r.hash, ret |-> r.ret, copied |-> r.copied,
              failed |-> r.failed]
    IN IF Len(cs) < 2 THEN Append(cs, c) ELSE <<cs[2], c>>

\* the process ends: its memory is gone, its exit status stays
Exit(code) ==
    /\ pc' = "idle"
    /\ exit_code' = Some(code)
    /\ posters' = <<>>
    /\ by_sha256' = EmptyMap
    /\ event_files' = <<>>
    /\ input_events' = <<>>
    /\ output_events' = <<>>
    /\ cur' = 1
    /\ calls' = <<>>
    /\ zones' = EmptyMap

RECURSIVE Unread(_, _)
\* main.rs:165-182: one report per event file that cannot be read
Unread(fs, i) ==
    IF i > Len(fs) THEN <<>>
    ELSE (IF fs[i] = "unreadable" THEN <<Diag("ReadFailed", i, None)>> ELSE <<>>)
         \o Unread(fs, i + 1)

\* main.rs:51-182: start-up, load_state, Posters::load, meta.toml, and
\* the read of every event file
StartRun(Times, Reads) ==
    /\ pc = "idle"
    /\ runs < MaxRuns
    /\ LET loaded == BySha256Of(state_json) IN
       \E t \in Times[runs + 1], startup \in {"ok", "failed"},
          fs \in UNION {[1..n -> Reads] : n \in 0..(MaxEvents - used)} :
        /\ used' = used + Len(fs)
        /\ runs' = runs + 1
        /\ now' = t
        /\ written' = {}
        /\ panicked' = None
        /\ files_at_start' = files
        /\ IF startup = "failed"
           THEN /\ diags' = {Diag("StartupFailed", 0, None)}
                /\ errors' = Count(0, <<Diag("StartupFailed", 0, None)>>)
                /\ Exit("FAILURE")
           ELSE /\ posters' = state_json
                /\ by_sha256' = loaded
                /\ event_files' = fs
                /\ diags' = Range(Unread(fs, 1))
                /\ errors' = Count(0, Unread(fs, 1))
                /\ exit_code' = None
                /\ input_events' = <<>>
                /\ output_events' = <<>>
                /\ calls' = <<>>
                /\ zones' = EmptyMap
                /\ cur' = 1
                /\ pc' = "parse"
    /\ UNCHANGED <<state_json, data_json, files, event, poster, todo, out>>

\* a parse loop that stops at the first file that does not parse
ParseEventAbort ==
    /\ pc = "parse"
    /\ cur <= Len(event_files)
    /\ CASE event_files[cur] = "ok" ->
               /\ input_events' = Append(input_events, cur)
               /\ cur' = cur + 1
               /\ UNCHANGED <<diags, errors>>
         [] event_files[cur] = "malformed" ->
               /\ diags' = diags \cup {Diag("EventParseError", cur, None)}
               /\ errors' = Count(errors, <<Diag("EventParseError", cur, None)>>)
               /\ cur' = Len(event_files) + 1
               /\ UNCHANGED input_events
         [] OTHER -> /\ cur' = cur + 1
                     /\ UNCHANGED <<input_events, diags, errors>>
    /\ UNCHANGED <<zones, panicked, state_json, data_json, files, pc, runs, files_at_start, used, now, posters, by_sha256,
                   event_files, event, poster, todo, out, output_events, written,
                   exit_code, calls>>

\* main.rs:184-200: one turn of the parse loop
ParseEvent ==
    /\ pc = "parse"
    /\ cur <= Len(event_files)
    /\ cur' = cur + 1
    /\ CASE event_files[cur] = "ok" ->
               /\ input_events' = Append(input_events, cur)
               /\ UNCHANGED <<diags, errors>>
         [] event_files[cur] = "malformed" ->
               /\ diags' = diags \cup {Diag("EventParseError", cur, None)}
               /\ errors' = Count(errors, <<Diag("EventParseError", cur, None)>>)
               /\ UNCHANGED input_events
         [] OTHER -> UNCHANGED <<input_events, diags, errors>>
    /\ UNCHANGED <<zones, panicked, state_json, data_json, files, pc, runs, files_at_start, used, now, posters, by_sha256,
                   event_files, event, poster, todo, out, output_events, written,
                   exit_code, calls>>

\* main.rs:202: time::collect_zones(now) over the zone database `table`;
\* a panic ends the process with its message on stderr
CollectZones(Tables) ==
    /\ pc = "parse"
    /\ cur > Len(event_files)
    /\ \E table \in Tables :
        IF IsSome(FirstBadLine(table))
        THEN /\ panicked' = FirstBadLine(table)
             /\ Exit("PANIC")
        ELSE /\ zones' = CollectZonesOf(table, now)
             /\ pc' = "prepare"
             /\ cur' = 1
             /\ UNCHANGED <<panicked, exit_code, posters, by_sha256, event_files,
                            input_events, output_events, calls>>
    /\ UNCHANGED <<state_json, data_json, files, runs, files_at_start, used, now, errors, diags,
                   event, poster, todo, out, written>>

\* a prepare_event that loads and interns the event's poster before it
\* looks at the time zone
PrepareEventLate(Events) ==
    /\ pc = "prepare"
    /\ cur <= Len(input_events)
    /\ \E ev \in Events :
        LET id == input_events[cur]
            guess == IF IsSome(ev.poster)
                     THEN [found |-> None, diags |-> <<>>]
                     ELSE GuessPoster(ev, id)
            path  == IF IsSome(ev.poster) THEN ev.poster ELSE guess.found
            load  == IF IsSome(path) THEN TryLoadPoster(Get(path), id)
                     ELSE [info |-> None, diags |-> <<>>]
        IN
        IF ev.timezone \notin DOMAIN zones \/ ev.timezone \notin TzNames
        THEN /\ diags' = diags \cup {Diag("MissingTimeZone", id, None)}
             /\ errors' = Count(errors, <<Diag("MissingTimeZone", id, None)>>)
             /\ cur' = cur + 1
             /\ IF IsSome(load.info)
                THEN LET r == TryGetOutput(posters, by_sha256, files, now,
                                           Get(load.info), "ok")
                     IN /\ posters' = r.posters
                        /\ by_sha256' = r.by_sha256
                        /\ files' = r.files
                ELSE UNCHANGED <<posters, by_sha256, files>>
             /\ UNCHANGED <<pc, event, poster, todo, out>>
        ELSE /\ diags' = diags \cup Range(guess.diags \o load.diags)
             /\ errors' = Count(errors, guess.diags \o load.diags)
             /\ event' = Some(ev)
             /\ poster' = load.info
             /\ todo' = LanguagesPosters(ev.languages)
             /\ out' = [NoOut EXCEPT !.id = id,
                                      !.languages = OutLanguages(ev.languages)]
             /\ pc' = "languages"
             /\ UNCHANGED <<cur, posters, by_sha256, files>>
    /\ UNCHANGED <<zones, panicked, state_json, data_json, runs, files_at_start, used,
                   now, event_files, input_events, output_events, written,
                   exit_code, calls>>

\* main.rs:205-215 and prepare_event, main.rs:427-442: the zone checks,
\* the choice of the event's poster and its load
PrepareEvent(Events) ==
    /\ pc = "prepare"
    /\ cur <= Len(input_events)
    /\ \E ev \in Events :
        LET id == input_events[cur] IN
        IF ev.timezone \notin DOMAIN zones \/ ev.timezone \notin TzNames
        THEN /\ diags' = diags \cup {Diag("MissingTimeZone", id, None)}
             /\ errors' = Count(errors, <<Diag("MissingTimeZone", id, None)>>)
             /\ cur' = cur + 1
             /\ UNCHANGED <<pc, event, poster, todo, out>>
        ELSE LET guess == IF IsSome(ev.poster)
                          THEN [found |-> None, diags |-> <<>>]
                          ELSE GuessPoster(ev, id)
                 path  == IF IsSome(ev.poster) THEN ev.poster ELSE guess.found
                 load  == IF IsSome(path) THEN TryLoadPoster(Get(path), id)
                          ELSE [info |-> None, diags |-> <<>>]
             IN /\ diags' = diags \cup Range(guess.diags \o load.diags)
                /\ errors' = Count(errors, guess.diags \o load.diags)
                /\ event' = Some(ev)
                /\ poster' = load.info
                /\ todo' = LanguagesPosters(ev.languages)
                /\ out' = [NoOut EXCEPT !.id = id,
                                         !.languages = OutLanguages(ev.languages)]
                /\ pc' = "languages"
                /\ UNCHANGED cur
    /\ UNCHANGED <<zones, panicked, state_json, data_json, files, runs, files_at_start, used, now, posters, by_sha256,
                   event_files, input_events, output_events, written, exit_code,
                   calls>>

\* convert_event_info (main.rs:747-767) on the next poster path:
\* try_load_poster, then Posters::try_get_output
ConvertEventInfo(Copies) ==
    /\ pc \in {"languages", "days"}
    /\ todo # <<>>
    /\ \E copy \in Copies :
        LET id   == out.id
            load == TryLoadPoster(Head(todo), id)
        IN IF IsSome(load.info)
           THEN LET r == TryGetOutput(posters, by_sha256, files, now, Get(load.info), copy)
                    printed == IF r.failed THEN {Plain("CopyFailed", id)} ELSE {}
                IN /\ posters' = r.posters
                   /\ by_sha256' = r.by_sha256
                   /\ files' = r.files
                   /\ calls' = Called(calls, r)
                   /\ diags' = diags \cup printed
                   /\ out' = [out EXCEPT !.refs = Append(@, r.ret),
                                          !.interned = Append(@, r.hash),
                                          !.slots = Append(@, r.ret)]
                   /\ UNCHANGED errors
           ELSE /\ diags' = diags \cup Range(load.diags)
                /\ errors' = Count(errors, load.diags)
                /\ out' = [out EXCEPT !.refs = Append(@, None)]
                /\ UNCHANGED <<posters, by_sha256, files, calls>>
    /\ todo' = Tail(todo)
    /\ UNCHANGED <<zones, panicked, state_json, data_json, pc, runs, files_at_start, used, now, event_files, input_events,
                   cur, event, poster, output_events, written, exit_code>>

\* prepare_event, main.rs:464-540: the confirmed and canceled filters and
\* the two midnights
FilterDates ==
    /\ pc = "languages"
    /\ todo = <<>>
    /\ LET ev == Get(event)
           id == out.id
           z  == Tz(ev.timezone)
           confirmed == ConvertDateSet(ev, ev.confirmed, z, now, TRUE)
           canceled  == ConvertDateSet(ev, ev.canceled, z, now, FALSE)
           warned == Reports("ConfirmedOutOfRange", id, confirmed.dropped)
                     \o Reports("CanceledOutOfRange", id, canceled.dropped)
           failed == IF ~IsSome(StartMidnight(ev, z))
                     THEN <<Diag("NoStartMidnight", id, None)>>
                     ELSE IF ~IsSome(EndMidnight(ev, z))
                          THEN <<Diag("NoEndMidnight", id, None)>>
                          ELSE <<>>
       IN /\ diags' = diags \cup Range(warned \o failed)
          /\ errors' = Count(errors, warned \o failed)
          /\ IF failed # <<>>
             THEN /\ cur' = cur + 1
                  /\ pc' = "prepare"
                  /\ event' = NoEvent
                  /\ poster' = None
                  /\ out' = NoOut
             ELSE /\ out' = [out EXCEPT !.confirmed = confirmed.set,
                                        !.canceled = canceled.set]
                  /\ pc' = "poster"
                  /\ UNCHANGED <<cur, event, poster>>
    /\ UNCHANGED <<zones, panicked, state_json, data_json, files, runs, files_at_start, used, now, posters, by_sha256,
                   event_files, input_events, todo, output_events, written,
                   exit_code, calls>>

\* prepare_event, main.rs:541-542: the event's own poster
EventPoster(Copies) ==
    /\ pc = "poster"
    /\ \E copy \in Copies :
        IF IsSome(poster)
        THEN LET r == TryGetOutput(posters, by_sha256, files, now, Get(poster), copy)
                 printed == IF r.failed THEN {Plain("CopyFailed", out.id)} ELSE {}
             IN /\ posters' = r.posters
                /\ by_sha256' = r.by_sha256
                /\ files' = r.files
                /\ calls' = Called(calls, r)
                /\ diags' = diags \cup printed
                /\ out' = [out EXCEPT !.poster = r.ret,
                                       !.interned = Append(@, r.hash),
                                       !.slots = Append(@, r.ret),
                                       !.info = OutInfo(Get(event)),
                                       !.days = OutDays(Get(event).days)]
        ELSE /\ out' = [out EXCEPT !.info = OutInfo(Get(event)),
                                    !.days = OutDays(Get(event).days)]
             /\ UNCHANGED <<posters, by_sha256, files, calls, diags>>
    /\ todo' = InfoPosters(Get(event)) \o DaysPosters(Get(event).days)
    /\ pc' = "days"
    /\ UNCHANGED <<zones, panicked, state_json, data_json, runs, files_at_start, used, now, errors, event_files,
                   input_events, cur, event, poster, output_events, written,
                   exit_code>>

\* prepare_event returns Ok: main.rs:212
FinishEvent ==
    /\ pc = "days"
    /\ todo = <<>>
    /\ output_events' = Append(output_events, out)
    /\ cur' = cur + 1
    /\ pc' = "prepare"
    /\ event' = NoEvent
    /\ poster' = None
    /\ out' = NoOut
    /\ UNCHANGED <<zones, panicked, state_json, data_json, files, runs, files_at_start, used, now, posters, by_sha256,
                   errors, diags, event_files, input_events, todo, written,
                   exit_code, calls>>

\* main.rs:217-218 and 243-245: the test of the counter
Gate ==
    /\ pc = "prepare"
    /\ cur > Len(input_events)
    /\ IF errors = 0
       THEN /\ pc' = "save_state"
            /\ UNCHANGED exit_code
            /\ UNCHANGED <<posters, by_sha256, event_files, input_events,
                           output_events, cur, calls, zones>>
       ELSE Exit("FAILURE")
    /\ UNCHANGED <<panicked, state_json, data_json, files, runs, files_at_start, used, now, errors, diags,
                   event, poster, todo, out, written>>

\* where safely_save can fail: tempfile_in, the save closure, flush, persist
SaveOutcomes == {"ok", "tempfile", "serialize", "flush", "persist"}
\* what a file holds after a write that stopped half way
Truncated == <<>>

\* a save that writes into the target itself
SafelySaveInPlace(old, content, io) ==
    [target |-> CASE io = "tempfile" -> old
                  [] io \in {"serialize", "flush"} -> Truncated
                  [] OTHER -> content,
     ok     |-> io = "ok"]

\* safely_save: the content goes to a NamedTempFile in the output
\* directory, which persist() renames over the target; on any error the
\* temporary file is dropped, which removes it
SafelySave(old, content, io) ==
    LET temp == CASE io = "tempfile" -> None
                  [] io \in {"serialize", "flush"} -> Some(Truncated)
                  [] OTHER -> Some(content)
    IN [target |-> IF io = "ok" THEN Get(temp) ELSE old,
        ok     |-> io = "ok"]

\* main.rs:218-225: posters.save(&mut state); safely_save(.., "state.json", ..)
SaveState ==
    /\ pc = "save_state"
    /\ \E io \in SaveOutcomes :
        LET saved == SafelySave(state_json, posters, io) IN
        /\ state_json' = saved.target
        /\ IF saved.ok
           THEN /\ written' = written \cup {"state.json"}
                /\ pc' = "save_data"
                /\ UNCHANGED <<zones, diags, errors, exit_code, posters, by_sha256,
                               event_files, input_events, output_events, cur, calls>>
           ELSE /\ diags' = diags \cup {Diag("SaveFailed", 0, None)}
                /\ errors' = Count(errors, <<Diag("SaveFailed", 0, None)>>)
                /\ Exit("FAILURE")
                /\ UNCHANGED written
    /\ UNCHANGED <<panicked, data_json, files, runs, files_at_start, used, now, event, poster, todo, out>>

\* main.rs:227-242: safely_save(.., "data.json", ..)
SaveData ==
    /\ pc = "save_data"
    /\ \E io \in SaveOutcomes :
        LET data  == Some([compiled_time |-> now,
                           events |-> [i \in 1..Len(output_events) |->
                                          output_events[i].id]])
            saved == SafelySave(data_json, data, io)
        IN
        /\ data_json' = saved.target
        /\ IF saved.ok
           THEN /\ written' = written \cup {"data.json"}
                /\ Exit("SUCCESS")
                /\ UNCHANGED <<diags, errors>>
           ELSE /\ diags' = diags \cup {Diag("SaveFailed", 0, None)}
                /\ errors' = Count(errors, <<Diag("SaveFailed", 0, None)>>)
                /\ Exit("FAILURE")
                /\ UNCHANGED written
    /\ UNCHANGED <<panicked, state_json, files, runs, files_at_start, used, now, event, poster, todo, out>>

NextOn(Events, Times, Reads, Tables, Copies) ==
    \/ StartRun(Times, Reads)
    \/ ParseEvent
    \/ CollectZones(Tables)
    \/ PrepareEvent(Events)
    \/ ConvertEventInfo(Copies)
    \/ FilterDates
    \/ EventPoster(Copies)
    \/ FinishEvent
    \/ Gate
    \/ SaveState
    \/ SaveData

(***************************************************************************)
(* Inputs.                                                                 *)
(***************************************************************************)
OkImage(h) == [status |-> "ok", width |-> 1024, height |-> 1024, hash |-> h]
BigImage(h) == [status |-> "ok", width |-> 4096, height |-> 1024, hash |-> h]
BadImage(status) == [status |-> status, width |-> 0, height |-> 0, hash |-> 0]

NoSiblings == [e \in {} |-> None]
Day(start, image) == Some([start |-> start, poster |-> image, description |-> None])
Described(day, text) == Some([Get(day) EXCEPT !.description = Some(text)])
\* input.rs:40-50, default_days
DefaultDays == [d \in 0..6 |-> Day(None, None)]
NoDays == [d \in 0..6 |-> None]
Language(image, days) == [poster |-> image, days |-> days, description |-> None]

\* the files next to the event file that share its stem, by extension,
\* each with an image of its own
Siblings(exts) ==
    [e \in exts |-> OkImage(CHOOSE i \in 1..6 : <<"webp", "jpeg", "jpg", "png", "txt", "gif">>[i] = e)]
BaseEvent ==
    [timezone |-> "UTC", start_date |-> None, end_date |-> None, start |-> 600,
     days |-> DefaultDays, languages |-> <<>>, confirmed |-> All(TRUE),
     canceled |-> All(FALSE), poster |-> None, siblings |-> NoSiblings,
     description |-> None]

\* the zone database compiled into the program (time.rs:26-35), cut down
\* to the zones of ZoneTable; America/New_York and America/Havana change
\* to daylight time on day 2, at 02:00 and at 00:00 local time
TzFiles ==
    <<[name |-> "etcetera", lines |-> <<"space", "zone", "link">>],
      [name |-> "northamerica", lines |-> <<"rule", "zone", "continuation">>]>>
TzDatabase ==
    [files |-> TzFiles,
     zones |-> [name \in ZoneTable |->
                  LET z == Tz(name) IN
                  [first |-> z.std,
                   rest  |-> IF z.forward
                             THEN <<Span(z.gap_day * MinutesPerDay + z.gap_at - z.std,
                                         z.dst)>>
                             ELSE <<>>]]]
\* the same database with a line the parser refuses, or one the table
\* builder refuses
BrokenDatabases ==
    LET Broken == [TzDatabase EXCEPT
                      !.zones = [name \in ZoneTable \cup {"Unbuilt"} |->
                                    [first |-> 0, rest |-> <<>>]]]
    IN {[Broken EXCEPT !.files[1].lines[2] = "syntax"],
        [Broken EXCEPT !.files[2].lines[3] = "rejected"],
        [Broken EXCEPT !.files[2].lines[1] = "rejected", !.files[2].lines[2] = "syntax"]}

\* digests new to every initial catalogue
NewHashes == (Capacity + 1)..(Capacity + MaxNew)

\* the output directory left by earlier runs: n posters, digests 1..n,
\* every slot file holding its entry's image
Catalogue(n, stamps) ==
    [i \in 1..n |-> Poster(i, IF stamps = "mid" /\ i \in {101, 201} THEN -3 ELSE -1)]
FilesOf(ps) ==
    [n \in {Hex2(i - 1) : i \in 1..Len(ps)} |-> Some(ps[n[1] * 16 + n[2] + 1].sha256)]

InitWith(Catalogues) ==
    /\ state_json \in Catalogues
    /\ files = FilesOf(state_json)
    /\ data_json = None
    /\ pc = "idle"
    /\ runs = 0
    /\ now = 0
    /\ posters = <<>>
    /\ by_sha256 = EmptyMap
    /\ errors = 0
    /\ diags = {}
    /\ event_files = <<>>
    /\ input_events = <<>>
    /\ cur = 1
    /\ event = NoEvent
    /\ poster = None
    /\ todo = <<>>
    /\ out = NoOut
    /\ output_events = <<>>
    /\ written = {}
    /\ exit_code = None
    /\ calls = <<>>
    /\ used = 0
    /\ zones = EmptyMap
    /\ panicked = None
    /\ files_at_start = files

(***************************************************************************)
(* Spec: runs over catalogues that are empty, nearly full and full, with   *)
(* events that name posters in every scope.                                *)
(***************************************************************************)
First == Capacity + 1
Last == Capacity + MaxNew
PosterEvents ==
    {[BaseEvent EXCEPT !.poster = Some(OkImage(First))],
     [BaseEvent EXCEPT !.languages = <<Language(Some(OkImage(Last)), NoDays)>>,
                       !.days[0] = Day(None, Some(OkImage(1)))],
     [BaseEvent EXCEPT !.languages = <<Language(Some(OkImage(First)), NoDays)>>,
                       !.poster = Some(OkImage(Last)),
                       !.days[6] = Day(None, Some(OkImage(First)))],
     [BaseEvent EXCEPT !.timezone = "America/Havana", !.start_date = Some(2),
                       !.languages = <<Language(Some(OkImage(First)), NoDays)>>],
     [BaseEvent EXCEPT !.timezone = "Mars/Olympus"]}

Catalogues ==
    {Catalogue(0, "flat"), Catalogue(Capacity - 1, "mid"),
     Catalogue(Capacity, "mid"), Catalogue(Capacity, "flat")}
RunTimes == [r \in 1..MaxRuns |-> {10 * r}]

Init == InitWith(Catalogues)
Next == NextOn(PosterEvents, RunTimes, {"ok", "malformed"}, {TzDatabase}, CopyOutcomes)
Spec == Init /\ [][Next]_vars

(***************************************************************************)
(* SpecEvents: runs that start from an empty output directory, with event  *)
(* files that raise each kind of diagnostic.                               *)
(***************************************************************************)
DiagnosticEvents ==
    {BaseEvent,
     [BaseEvent EXCEPT !.timezone = "Mars/Olympus"],
     [BaseEvent EXCEPT !.timezone = "Factory"],
     [BaseEvent EXCEPT !.timezone = "America/Havana", !.start_date = Some(2)],
     [BaseEvent EXCEPT !.timezone = "America/Havana", !.end_date = Some(1),
                       !.languages = <<Language(Some(OkImage(2)), NoDays)>>],
     [BaseEvent EXCEPT !.poster = Some(BigImage(1))],
     [BaseEvent EXCEPT !.poster = Some(BadImage("noopen"))],
     [BaseEvent EXCEPT !.days[3] = Day(None, Some(BadImage("noprobe")))],
     [BaseEvent EXCEPT !.languages = <<Language(Some(BadImage("noread")), NoDays)>>],
     [BaseEvent EXCEPT !.siblings = [e \in {"jpeg", "png"} |-> OkImage(1)]],
     [BaseEvent EXCEPT !.start_date = Some(1), !.confirmed = Dates(<<0, 1>>)],
     [BaseEvent EXCEPT !.days[1] = None, !.canceled = Dates(<<1>>)],
     [BaseEvent EXCEPT !.poster = Some(OkImage(1)),
                       !.days[0] = Day(None, Some(OkImage(2)))],
     [BaseEvent EXCEPT !.siblings = Siblings({"webp", "png"})],
     [BaseEvent EXCEPT !.siblings = Siblings({"jpeg", "jpg", "png"})],
     [BaseEvent EXCEPT !.siblings = Siblings({"jpg", "txt"})],
     [BaseEvent EXCEPT !.siblings = Siblings({"txt"})],
     [BaseEvent EXCEPT !.description = Some("root"),
                       !.days[0] = Described(Day(None, None), "monday"),
                       !.languages =
                           <<[Language(None, [NoDays EXCEPT
                                 ![0] = Described(Day(None, None), "monday-ja"),
                                 ![1] = Day(None, None)])
                               EXCEPT !.description = Some("ja")],
                             Language(None, NoDays)>>],
     [BaseEvent EXCEPT !.timezone = "Mars/Olympus", !.poster = Some(OkImage(3)),
                       !.languages = <<Language(Some(OkImage(4)), NoDays)>>],
     [BaseEvent EXCEPT !.timezone = "Factory", !.poster = Some(OkImage(1))]}

InitEvents == InitWith({<<>>})
NextEvents ==
    NextOn(DiagnosticEvents, RunTimes, {"ok", "malformed", "unreadable"},
           {TzDatabase} \cup BrokenDatabases, CopyOutcomes)
SpecEvents == InitEvents /\ [][NextEvents]_vars

(***************************************************************************)
(* SpecDates: one call of prepare_event, on the only event of a first run, *)
(* for every event of DateEvents and every run time of DateTimes.          *)
(***************************************************************************)
DateLists ==
    UNION {[1..n -> 0..MaxDate] : n \in 0..2}
DateSets ==
    {[confirmed |-> All(TRUE), canceled |-> All(FALSE)],
     [confirmed |-> All(FALSE), canceled |-> All(TRUE)]}
    \cup {[confirmed |-> Dates(ds), canceled |-> Dates(ds)] : ds \in DateLists}
DateEvents ==
    {[BaseEvent EXCEPT !.timezone = z, !.start_date = sd, !.end_date = ed,
                       !.start = st, !.days = days, !.languages = ls,
                       !.confirmed = sets.confirmed, !.canceled = sets.canceled] :
        z \in {"UTC", "America/New_York"},
        sd \in {None, Some(1)},
        ed \in {None, Some(2)},
        st \in {150, 600},
        days \in {DefaultDays,
                  [DefaultDays EXCEPT ![1] = None],
                  [DefaultDays EXCEPT ![2] = Day(Some(600), None), ![3] = None]},
        ls \in {<<>>, <<Language(Some(OkImage(1)), NoDays)>>},
        sets \in DateSets}
DateTimes == {0, 2040, 2100, 3500, 9000}

InitDates ==
    /\ state_json = <<>>
    /\ files = FilesOf(<<>>)
    /\ data_json = None
    /\ pc = "prepare"
    /\ runs = 1
    /\ now \in DateTimes
    /\ posters = <<>>
    /\ by_sha256 = EmptyMap
    /\ errors = 0
    /\ diags = {}
    /\ event_files = <<"ok">>
    /\ input_events = <<1>>
    /\ cur = 1
    /\ event = NoEvent
    /\ poster = None
    /\ todo = <<>>
    /\ out = NoOut
    /\ output_events = <<>>
    /\ written = {}
    /\ exit_code = None
    /\ calls = <<>>
    /\ used = 1
    /\ zones = CollectZonesOf(TzDatabase, now)
    /\ panicked = None
    /\ files_at_start = files
NextDates ==
    \/ PrepareEvent(DateEvents)
    \/ ConvertEventInfo(CopyOutcomes)
    \/ FilterDates
    \/ EventPoster(CopyOutcomes)
    \/ FinishEvent
SpecDates == InitDates /\ [][NextDates]_vars

(***************************************************************************)
(* SpecZones: one call of collect_zones, for every table of ZoneTables and *)
(* every run time of ZoneTimes.                                            *)
(***************************************************************************)
MaxSpans == 3
Horizon == LimitDays * MinutesPerDay
ZoneTimes == {0, 100, 150, 200}
\* span starts before, at and after the run times, and around their limits
SpanStarts == {-50, 0, 100, 200, Horizon - 1, Horizon, Horizon + 100, Horizon + 101}

RECURSIVE Ascending(_)
Ascending(S) == IF S = {} THEN <<>> ELSE <<Min(S)>> \o Ascending(S \ {Min(S)})

ZoneTables ==
    {[files |-> TzFiles,
      zones |-> [name \in {"Test/Zone"} |->
                   [first |-> f,
                    rest  |-> [i \in 1..Cardinality(S) |->
                                 Span(Ascending(S)[i], IF i % 2 = 1 THEN f + 60 ELSE f)]]]] :
        f \in {0, -300, 540},
        S \in {T \in SUBSET SpanStarts : Cardinality(T) <= MaxSpans}}
    \cup BrokenDatabases

InitZones ==
    /\ state_json = <<>>
    /\ files = FilesOf(<<>>)
    /\ data_json = None
    /\ pc = "parse"
    /\ runs = 1
    /\ now \in ZoneTimes
    /\ posters = <<>>
    /\ by_sha256 = EmptyMap
    /\ errors = 0
    /\ diags = {}
    /\ event_files = <<>>
    /\ input_events = <<>>
    /\ cur = 1
    /\ event = NoEvent
    /\ poster = None
    /\ todo = <<>>
    /\ out = NoOut
    /\ output_events = <<>>
    /\ written = {}
    /\ exit_code = None
    /\ calls = <<>>
    /\ used = 0
    /\ zones = EmptyMap
    /\ panicked = None
    /\ files_at_start = files
NextZones == CollectZones(ZoneTables)
SpecZones == InitZones /\ [][NextZones]_vars

(***************************************************************************)
(* SpecMany: runs from an empty output directory in which one event names  *)
(* more posters than the catalogue has slots, and every copy succeeds.     *)
(***************************************************************************)
MaxLanguages == 32
\* language l names a poster of its own and one for each weekday, all of
\* different digests: 8 digests a language
ManyDays(l) == [d \in 0..6 |-> Day(None, Some(OkImage(8 * (l - 1) + d + 2)))]
ManyLanguages ==
    [l \in 1..MaxLanguages |-> Language(Some(OkImage(8 * (l - 1) + 1)), ManyDays(l))]
ManyEvents == {[BaseEvent EXCEPT !.languages = ManyLanguages], BaseEvent}

InitMany == InitWith({<<>>})
NextMany == NextOn(ManyEvents, RunTimes, {"ok"}, {TzDatabase}, {"ok"})
SpecMany == InitMany /\ [][NextMany]_vars

(***************************************************************************)
(* The claims.                                                             *)
(***************************************************************************)
LastCall == calls[Len(calls)]
\* this step is a call of try_get_output
Interned ==
    /\ calls' # <<>>
    /\ calls = <<>> \/ calls'[Len(calls')].n # calls[Len(calls)].n
Digests(ps) == {ps[i].sha256 : i \in 1..Len(ps)}

\* C1: the catalogue never holds more than 255 entries, and interning an
\* uncatalogued digest while it holds 255 changes exactly one entry and
\* leaves 255.
C1_CatalogueBounded ==
    /\ [](Len(posters) <= 255 /\ Len(state_json) <= 255)
    /\ [][(Interned /\ calls'[Len(calls')].hash \notin Digests(posters)
                    /\ Len(posters) = 255)
          => /\ Len(posters') = 255
             /\ Cardinality({i \in 1..255 : posters'[i] # posters[i]}) = 1]_vars
\* a run that began with 255 entries has interned a digest that was not
\* among them
C1_Witness ==
    /\ Len(state_json) = 255
    /\ calls # <<>>
    /\ LastCall.hash \notin Digests(state_json)
    /\ LastCall.hash \in Digests(posters)
    /\ Len(posters) = 255

\* C2: two consecutive Intern calls with the same digest return the same
\* slot number both times, and the second call writes no file.
C2_Idempotent ==
    (Len(calls) = 2 /\ calls[1].hash = calls[2].hash)
    => /\ IsSome(calls[1].ret)
       /\ calls[2].ret = calls[1].ret
       /\ ~calls[2].copied

\* C3: the digest map and the catalogue agree: the map sends d to i exactly
\* when entry i holds d, and no two entries hold the same digest.
C3_MapAgrees ==
    /\ DOMAIN by_sha256 = Digests(posters)
    /\ \A i \in 1..Len(posters) : by_sha256[posters[i].sha256] = i - 1
    /\ Cardinality(Digests(posters)) = Len(posters)
\* a full catalogue in which a digest has been replaced
C3_Witness ==
    /\ Len(posters) = 255
    /\ Len(state_json) = 255
    /\ Digests(posters) # Digests(state_json)

\* C4: a digest keeps its slot number from the call that catalogues it to
\* the call that evicts it, across the save to state.json and the next
\* load: every call for it returns that slot, and no other digest is given
\* the slot meanwhile.
C4_SlotStable ==
    [][/\ (pc # "idle" /\ pc' # "idle") =>
            /\ \A h \in DOMAIN by_sha256 :
                  IF h \in DOMAIN by_sha256'
                  THEN by_sha256'[h] = by_sha256[h]
                  ELSE /\ Interned
                       /\ calls'[Len(calls')].hash # h
                       /\ posters'[by_sha256[h] + 1].sha256 = calls'[Len(calls')].hash
            /\ \A h \in DOMAIN by_sha256' \ DOMAIN by_sha256 :
                  \A g \in DOMAIN by_sha256' \ {h} : by_sha256'[g] # by_sha256'[h]
            /\ Interned =>
                  LET c == calls'[Len(calls')] IN
                  /\ c.ret \in {None, Some(by_sha256'[c.hash])}
                  /\ c.hash \in DOMAIN by_sha256 => c.ret = Some(by_sha256[c.hash])
       /\ (pc = "save_state" /\ pc' = "save_data") =>
            \A h \in DOMAIN by_sha256 : state_json'[by_sha256[h] + 1].sha256 = h
       /\ (pc = "idle" /\ pc' = "parse") =>
            \A i \in 1..Len(state_json) : by_sha256'[state_json[i].sha256] = i - 1
      ]_vars
\* the second run is given, for a digest the first run catalogued, the
\* slot the first run saved it under
C4_Witness ==
    /\ runs = 2
    /\ calls # <<>>
    /\ LastCall.hash \in NewHashes
    /\ \E i \in 1..Len(state_json) :
          /\ state_json[i].sha256 = LastCall.hash
          /\ state_json[i].last_used < now
          /\ LastCall.ret = Some(i - 1)

Kinds(ks) == {d \in diags : d.kind \in ks}
\* the reports of a failed parse and of a rejected event
ParseFailures == {"EventParseError"}
Rejections == {"MissingTimeZone", "NoStartMidnight", "NoEndMidnight"}

\* the exit statuses that are not success: ExitCode::FAILURE, and that of
\* a process that panicked
FailureStatus == {Some("FAILURE"), Some("PANIC")}

\* C5: after a fatal diagnostic of parsing or resolution neither state.json
\* nor data.json is written and the run exits with failure; the counter
\* being zero at the end of resolution is the only condition on writing.
C5_FatalBlocksOutput ==
    /\ [](Kinds(ParseFailures \cup Rejections) # {}
            => /\ written = {}
               /\ pc \notin {"save_state", "save_data"}
               /\ pc = "idle" => exit_code \in FailureStatus)
    /\ [][/\ (pc = "prepare" /\ cur > Len(input_events)) =>
               IF errors = 0
               THEN pc' = "save_state"
               ELSE pc' = "idle" /\ exit_code' = Some("FAILURE") /\ written' = {}
          /\ (state_json' # state_json \/ data_json' # data_json
                \/ (written' # written /\ written' # {})) =>
               (pc \in {"save_state", "save_data"} /\ errors = 0)
         ]_vars
\* a run in which an event was rejected for its time zone has ended
C5_Witness ==
    /\ pc = "idle"
    /\ exit_code = Some("FAILURE")
    /\ Kinds({"MissingTimeZone"}) # {}
    /\ errors > 0
    /\ written = {}

\* the diagnostics the claim C6 calls warnings
WarningClass ==
    {"ConfirmedOutOfRange", "CanceledOutOfRange", "ImageTooLarge", "MultiplePosters",
     "PosterOpenFailed", "ImageUnreadable", "PosterReadFailed", "CopyFailed"}

\* C6: a run whose only diagnostics are out-of-range dates, an oversized
\* poster, ambiguous poster guesses and poster read or copy failures leaves
\* the counter at zero, writes both outputs and exits with success.
C6_WarningsOnly ==
    (pc = "idle" /\ IsSome(exit_code) /\ \A d \in diags : d.kind \in WarningClass)
    => /\ errors = 0
       /\ exit_code = Some("SUCCESS")
       /\ written = {"state.json", "data.json"}

OutputIds == [i \in 1..Len(output_events) |-> output_events[i].id]
Parsed(i) == event_files[i] = "ok"
Accepted(id) == \A d \in Kinds(Rejections) : d.ev # id

\* C7: a file that fails to parse and an event rejected in resolution do
\* not stop the others: the output list holds, in order, exactly the
\* events that parsed and were not rejected.
C7_Isolation ==
    pc = "prepare" =>
        /\ input_events
             = SelectSeq([i \in 1..Len(event_files) |-> i], Parsed)
        /\ OutputIds
             = SelectSeq(SubSeq(input_events, 1, cur - 1), Accepted)
\* the first of two events was rejected and the second is in the output
C7_Witness ==
    /\ pc = "prepare"
    /\ cur > Len(input_events)
    /\ input_events = <<1, 2>>
    /\ ~Accepted(1)
    /\ OutputIds = <<2>>

OutOfBounds(ev, d) ==
    \/ IsSome(ev.start_date) /\ d < Get(ev.start_date)
    \/ IsSome(ev.end_date) /\ d > Get(ev.end_date)
Scheduled(ev, d) == IsSome(ev.days[Weekday(d)])
\* the start time of the occurrence on d: the weekday's override, else the
\* event's own
StartTimeOn(ev, d) ==
    IF Scheduled(ev, d) /\ IsSome(Get(ev.days[Weekday(d)]).start)
    THEN Get(Get(ev.days[Weekday(d)]).start)
    ELSE ev.start
Instant(ev, d) == LocalEarliest(d, StartTimeOn(ev, d), Tz(ev.timezone))
Later(ev, d) == IsSome(Instant(ev, d)) /\ now < Get(Instant(ev, d))
Warned(kind, d) == Diag(kind, out.id, Some(d)) \in diags
Kept(set, d) == set.tag = "Dates" /\ d \in Range(set.dates)
Filtered == pc \in {"poster", "days"} /\ IsSome(event)

\* C8 as stated: a confirmed date is dropped with a warning exactly when it
\* is before start_date or after end_date, and is otherwise kept exactly
\* when its instant (force = true) is later than now.
C8_AsStated ==
    (Filtered /\ Get(event).confirmed.tag = "Dates") =>
        \A d \in Range(Get(event).confirmed.dates) :
            /\ Warned("ConfirmedOutOfRange", d) <=> OutOfBounds(Get(event), d)
            /\ OutOfBounds(Get(event), d) => ~Kept(out.confirmed, d)
            /\ ~OutOfBounds(Get(event), d) =>
                  (Kept(out.confirmed, d) <=> Later(Get(event), d))

\* C8: a confirmed date is dropped with a warning exactly when it is
\* before start_date, after end_date, or its local start time does not
\* exist in the event's zone; otherwise it is kept exactly when its
\* instant (force = true) is later than now.
C8_ConfirmedFilter ==
    (Filtered /\ Get(event).confirmed.tag = "Dates") =>
        \A d \in Range(Get(event).confirmed.dates) :
            LET gone == \/ OutOfBounds(Get(event), d)
                        \/ ~IsSome(Instant(Get(event), d))
            IN /\ Warned("ConfirmedOutOfRange", d) <=> gone
               /\ gone => ~Kept(out.confirmed, d)
               /\ ~gone => (Kept(out.confirmed, d) <=> now < Get(Instant(Get(event), d)))
\* a confirmed date inside the bounds was dropped with a warning because
\* its start time is skipped by the clock change, another was kept
C8_Witness ==
    /\ Filtered
    /\ Get(event).confirmed.tag = "Dates"
    /\ \E d \in Range(Get(event).confirmed.dates) :
          /\ ~OutOfBounds(Get(event), d)
          /\ ~IsSome(Instant(Get(event), d))
          /\ Warned("ConfirmedOutOfRange", d)
    /\ \E d \in Range(Get(event).confirmed.dates) : Kept(out.confirmed, d)

\* C9: a canceled date whose weekday has no entry in the schedule is
\* dropped with a warning (force = false); one inside the bounds on a
\* scheduled weekday is kept exactly when its instant is later than now.
C9_CanceledFilter ==
    (Filtered /\ Get(event).canceled.tag = "Dates") =>
        \A d \in Range(Get(event).canceled.dates) :
            /\ ~Scheduled(Get(event), d) =>
                  /\ ~Kept(out.canceled, d)
                  /\ Warned("CanceledOutOfRange", d)
            /\ (Scheduled(Get(event), d) /\ ~OutOfBounds(Get(event), d)) =>
                  (Kept(out.canceled, d) <=> Later(Get(event), d))
\* a canceled date inside the bounds and still ahead, on a weekday without
\* an entry, was dropped with a warning, and another date was kept
C9_Witness ==
    /\ Filtered
    /\ Get(event).canceled.tag = "Dates"
    /\ \E d \in Range(Get(event).canceled.dates) :
          /\ ~Scheduled(Get(event), d)
          /\ ~OutOfBounds(Get(event), d)
          /\ Later(Get(event), d)
          /\ Warned("CanceledOutOfRange", d)
    /\ \E d \in Range(Get(event).canceled.dates) : Kept(out.canceled, d)

WellFormed(set) == set = All(FALSE) \/ (set.tag = "Dates" /\ set.dates # <<>>)

\* C10: an explicit list of confirmed or canceled dates comes out as a
\* non-empty explicit list or as All(false), never an empty list and never
\* All(true).
C10_ListOrNone ==
    /\ Filtered =>
          /\ Get(event).confirmed.tag = "Dates" => WellFormed(out.confirmed)
          /\ Get(event).canceled.tag = "Dates" => WellFormed(out.canceled)
    /\ \A i \in 1..Len(output_events) :
          /\ output_events[i].confirmed # Dates(<<>>)
          /\ output_events[i].canceled # Dates(<<>>)
\* a list of confirmed dates none of which is ahead came out as All(false),
\* and the same list of canceled dates came out shorter
C10_Witness ==
    /\ Filtered
    /\ Get(event).confirmed.tag = "Dates"
    /\ Get(event).confirmed.dates # <<>>
    /\ out.confirmed = All(FALSE)
    /\ Get(event).canceled.tag = "Dates"
    /\ Len(Get(event).canceled.dates) = 2

\* no weekday of the event sets a start time of its own
NoOverrides(ev) ==
    \A w \in DOMAIN ev.days : IsSome(ev.days[w]) => ~IsSome(Get(ev.days[w]).start)
\* the local date and the local time of day of instant u in zone z
LocalDate(z, u) == (u + OffsetAt(z, u)) \div MinutesPerDay
LocalTime(z, u) == (u + OffsetAt(z, u)) % MinutesPerDay
\* what get_time_for_day(force = false) gives for the dates of the
\* canceled list
Unforced(ev, d) == GetTimeForDay(ev, d, Tz(ev.timezone), FALSE)
CanceledDates == IF Filtered /\ NoOverrides(Get(event))
                 THEN {d \in Range(Get(event).canceled.dates) :
                          ~OutOfBounds(Get(event), d)}
                 ELSE {}

\* C11 as stated: without overrides and inside the bounds, force = false
\* gives none on a weekday without an entry and an instant at the base
\* start time on a weekday with one.
C11_AsStated ==
    \A d \in CanceledDates :
        IF Scheduled(Get(event), d)
        THEN /\ IsSome(Unforced(Get(event), d))
             /\ LocalTime(Tz(Get(event).timezone), Get(Unforced(Get(event), d)))
                   = Get(event).start
        ELSE Unforced(Get(event), d) = None

\* C11: without overrides and inside the bounds, force = false gives none
\* on a weekday without an entry; on a weekday with one it gives the
\* instant whose local date is the date and whose local time of day is the
\* base start time, or none when the zone's clock skips that local time.
C11_Unforced ==
    \A d \in CanceledDates :
        LET z == Tz(Get(event).timezone)
            r == Unforced(Get(event), d)
            exists == \E o \in {z.std, z.dst} :
                         LET u == d * MinutesPerDay + Get(event).start - o
                         IN OffsetAt(z, u) = o
        IN IF Scheduled(Get(event), d) /\ exists
           THEN /\ IsSome(r)
                /\ LocalDate(z, Get(r)) = d
                /\ LocalTime(z, Get(r)) = Get(event).start
           ELSE r = None
\* the canceled list of an event without overrides held a date on a
\* weekday without an entry and a date on a weekday with an entry whose
\* start time the clock skips
C11_Witness ==
    /\ \E d \in CanceledDates :
          /\ Scheduled(Get(event), d)
          /\ Unforced(Get(event), d) = None
    /\ \E d \in CanceledDates : ~Scheduled(Get(event), d)

\* C12: every transition list of the zone table is in ascending order of
\* start, exactly its first entry has no start, every later start is after
\* now, and no start is at or beyond now + 1825 days.
C12_Transitions ==
    \A name \in DOMAIN zones :
        LET t == zones[name] IN
        /\ Len(t) >= 1
        /\ t[1].start = None
        /\ \A i \in 2..Len(t) :
              /\ IsSome(t[i].start)
              /\ Get(t[i].start) > now
              /\ Get(t[i].start) < now + 1825 * 1440
              /\ i > 2 => Get(t[i - 1].start) < Get(t[i].start)
\* a list of three entries whose last starts one minute before the limit
C12_Witness ==
    /\ pc = "prepare"
    /\ \E name \in DOMAIN zones :
          /\ Len(zones[name]) = 3
          /\ zones[name][3].start = Some(now + 1825 * 1440 - 1)

\* the value the nearest enclosing scope sets, own value first
Nearest(scopes) ==
    LET set == {i \in 1..Len(scopes) : IsSome(scopes[i])}
    IN IF set = {} THEN None ELSE scopes[Min(set)]

\* C13: in the output a descriptive field of a weekday, language or
\* language-weekday scope has the value set in that scope and otherwise
\* the value of the nearest enclosing scope that sets it.
C13_Fallthrough ==
    (pc = "days" /\ IsSome(event)) =>
        LET ev == Get(event) IN
        /\ \A d \in 0..6 : IsSome(ev.days[d]) =>
              Get(out.days[d]).description
                 = Nearest(<<Get(ev.days[d]).description, ev.description>>)
        /\ \A i \in 1..Len(ev.languages) :
              /\ out.languages[i].info.description
                    = Nearest(<<ev.languages[i].description, ev.description>>)
              /\ \A d \in 0..6 : IsSome(ev.languages[i].days[d]) =>
                    Get(out.languages[i].days[d]).description
                       = Nearest(<<Get(ev.languages[i].days[d]).description,
                                   ev.languages[i].description,
                                   ev.description>>)

\* the sibling the claim C14 expects: the first extension of webp, jpeg,
\* jpg, png that a sibling file has
Preferred(siblings) ==
    IF "webp" \in DOMAIN siblings THEN Some("webp")
    ELSE IF "jpeg" \in DOMAIN siblings THEN Some("jpeg")
    ELSE IF "jpg" \in DOMAIN siblings THEN Some("jpg")
    ELSE IF "png" \in DOMAIN siblings THEN Some("png")
    ELSE None
Guessing == pc = "languages" /\ IsSome(event) /\ ~IsSome(Get(event).poster)

\* C14: without an explicit poster, guess_poster gives the sibling with the
\* first of the extensions webp, jpeg, jpg, png, reports one warning, not
\* counted, for each later extension that also exists, and gives nothing
\* when there is no such sibling.
C14_Guess ==
    Guessing =>
        LET ev    == Get(event)
            first == Preferred(ev.siblings)
            guess == GuessPoster(ev, out.id)
            others == DOMAIN ev.siblings \cap {"webp", "jpeg", "jpg", "png"}
        IN IF ~IsSome(first)
           THEN guess = [found |-> None, diags |-> <<>>] /\ poster = None
           ELSE /\ guess.found = Some(ev.siblings[Get(first)])
                /\ poster = TryLoadPoster(ev.siblings[Get(first)], out.id).info
                /\ Len(guess.diags) = Cardinality(others) - 1
                /\ \A i \in 1..Len(guess.diags) :
                      /\ guess.diags[i] = Diag("MultiplePosters", out.id, None)
                      /\ guess.diags[i] \in diags
                      /\ Severity(guess.diags[i].kind) = Some("warning")
                /\ Count(0, guess.diags) = 0
                /\ (\A d \in diags : d.kind = "MultiplePosters") => errors = 0
\* the event has a jpeg, a jpg and a png sibling: the jpeg is loaded and
\* the warning is printed
C14_Witness ==
    /\ Guessing
    /\ DOMAIN Get(event).siblings = {"jpeg", "jpg", "png"}
    /\ IsSome(poster)
    /\ Get(poster).hash = Get(event).siblings["jpeg"].hash
    /\ Diag("MultiplePosters", out.id, None) \in diags
    /\ errors = 0

\* C15: a call whose copy fails returns no poster reference; the scope is
\* left without poster, nothing is counted, the event goes on and is
\* appended to the output, and the run goes on.
C15_CopyFailure ==
    [][/\ (Interned /\ calls'[Len(calls')].failed) =>
            /\ calls'[Len(calls')].ret = None
            /\ IF pc = "poster"
               THEN out'.poster = None
               ELSE out'.refs = Append(out.refs, None)
            /\ files' = files
            /\ errors' = errors
            /\ event' = event
            /\ pc' \in {"languages", "days"}
            /\ exit_code' = exit_code
       /\ (pc = "days" /\ pc' # "days") =>
            /\ pc' = "prepare"
            /\ output_events' = Append(output_events, out)
      ]_vars
\* the copy of an event's own poster failed; the event is in the output
\* without poster and the run has passed the test of the counter
C15_Witness ==
    /\ pc = "save_state"
    /\ \E i \in 1..Len(output_events) :
          /\ output_events[i].poster = None
          /\ output_events[i].interned # <<>>
          /\ Plain("CopyFailed", output_events[i].id) \in diags

\* C16: state.json and data.json each change only by a save that went
\* through, to the whole new content; a save that fails at the temporary
\* file, the serialization, the flush or the rename leaves the file's old
\* content, whatever happened to the other file.
C16_SafelySave ==
    [][/\ pc = "save_state" =>
            /\ data_json' = data_json
            /\ IF pc' = "save_data"
               THEN state_json' = posters /\ "state.json" \in written'
               ELSE /\ state_json' = state_json
                    /\ exit_code' = Some("FAILURE")
                    /\ written' = written
       /\ pc = "save_data" =>
            /\ state_json' = state_json
            /\ IF exit_code' = Some("SUCCESS")
               THEN /\ IsSome(data_json')
                    /\ Get(data_json').compiled_time = now
                    /\ "data.json" \in written'
               ELSE /\ data_json' = data_json
                    /\ exit_code' = Some("FAILURE")
                    /\ written' = written
       /\ pc \notin {"save_state", "save_data"} =>
            (state_json' = state_json /\ data_json' = data_json)
      ]_vars
\* the second run replaced state.json and failed to save data.json, which
\* still holds what the first run wrote
C16_Witness ==
    /\ pc = "idle"
    /\ runs = 2
    /\ exit_code = Some("FAILURE")
    /\ written = {"state.json"}
    /\ IsSome(data_json)
    /\ Get(data_json).compiled_time # now

\* the first refused line of a database: file name and 1-based line number
Refused(db, file, line) ==
    \E f \in 1..Len(db.files) :
        /\ db.files[f].name = file
        /\ line \in 1..Len(db.files[f].lines)
        /\ db.files[f].lines[line] \in {"syntax", "rejected"}
        /\ \A l \in 1..(line - 1) : db.files[f].lines[l] \notin {"syntax", "rejected"}
        /\ \A g \in 1..(f - 1) : \A l \in 1..Len(db.files[g].lines) :
              db.files[g].lines[l] \notin {"syntax", "rejected"}

\* C17: a zone database with a refused line ends the run, with a message
\* that names the file and the 1-based line, before any event is prepared
\* and with no artifact written; no run goes on with such a database.
C17_BadLineAborts ==
    /\ [](/\ "Unbuilt" \notin DOMAIN zones
          /\ IsSome(panicked) =>
                /\ pc = "idle"
                /\ exit_code = Some("PANIC")
                /\ written = {}
                /\ \E db \in BrokenDatabases :
                      Refused(db, Get(panicked).file, Get(panicked).line))
    /\ [][(IsSome(panicked') /\ ~IsSome(panicked)) =>
             /\ pc = "parse"
             /\ output_events = <<>>
             /\ calls = <<>>
             /\ Kinds(Rejections) = {}
             /\ diags' = diags
             /\ state_json' = state_json
             /\ data_json' = data_json
             /\ files' = files
          ]_vars
\* a run that read and parsed its event files, one of which was
\* malformed, stopped at the first line of the second database file
C17_Witness ==
    /\ pc = "idle"
    /\ panicked = Some([message |-> "Error at", file |-> "northamerica", line |-> 1])
    /\ Kinds(ParseFailures) # {}
    /\ written = {}

\* C18: a call for an uncatalogued digest that finds the catalogue full
\* replaces the entry with the least last_used and, among those, the
\* lowest slot; the old digest leaves the map, and the slot holds the new
\* digest with last_used = now.
C18_EvictsOldest ==
    [][(Interned /\ calls'[Len(calls')].hash \notin Digests(posters)
                 /\ Len(posters) = 255)
       => LET h == calls'[Len(calls')].hash
              k == CHOOSE i \in 1..255 : posters'[i] # posters[i]
          IN /\ \A j \in 1..255 : posters[k].last_used <= posters[j].last_used
             /\ \A j \in 1..(k - 1) : posters[k].last_used < posters[j].last_used
             /\ posters' = [posters EXCEPT ![k] = [sha256 |-> h, last_used |-> now]]
             /\ posters[k].sha256 \notin DOMAIN by_sha256'
             /\ by_sha256'[h] = k - 1
             /\ calls'[Len(calls')].ret \in {None, Some(k - 1)}
      ]_vars
\* all 255 entries had the same last_used and slot 0 was replaced
C18_Witness ==
    /\ Len(state_json) = 255
    /\ \A i \in 2..255 : state_json[i].last_used = state_json[1].last_used
    /\ Len(posters) = 255
    /\ posters[1].sha256 \notin Digests(state_json)
    /\ posters[1].last_used = now
    /\ \A i \in 2..255 : posters[i] = state_json[i]

\* the scopes of an event that name a poster: the event itself (named or
\* guessed), its weekdays, its languages and their weekdays
References(ev) ==
    (IF IsSome(ev.poster) \/ IsSome(GuessPoster(ev, 0).found) THEN 1 ELSE 0)
    + Len(DaysPosters(ev.days)) + Len(LanguagesPosters(ev.languages))
\* every image the event refers to can be loaded
Loadable(ev) ==
    LET root == IF IsSome(ev.poster) THEN <<Get(ev.poster)>>
                ELSE IF IsSome(GuessPoster(ev, 0).found)
                     THEN <<Get(GuessPoster(ev, 0).found)>> ELSE <<>>
        paths == root \o DaysPosters(ev.days) \o LanguagesPosters(ev.languages)
    IN \A i \in 1..Len(paths) : IsSome(TryLoadPoster(paths[i], 0).info)

\* C19: when prepare_event has resolved an event whose images all load,
\* try_get_output has been called exactly once for each scope of the event
\* that names a poster.
C19_OncePerReference ==
    (pc = "days" /\ todo = <<>> /\ Loadable(Get(event)))
    => Len(out.interned) = References(Get(event))

\* C20: every catalogue entry's slot file exists and holds the image of
\* the entry's digest, after every call of try_get_output of a run.
C20_FilesAgree ==
    \A i \in 1..Len(posters) :
        /\ Hex2(i - 1) \in DOMAIN files
        /\ files[Hex2(i - 1)] = Some(posters[i].sha256)

\* the (digest, slot) pairs try_get_output has returned in this run for
\* the events of the output and the event being resolved
Issued ==
    LET outs == output_events \o <<out>>
    IN UNION {{<<outs[e].interned[i], outs[e].slots[i]>> :
                  i \in 1..Len(outs[e].interned)} : e \in 1..Len(outs)}

\* C21: within one run no slot number is returned for two different
\* digests.
C21_NoSharedSlot ==
    LET given == {p \in Issued : IsSome(p[2])}
    IN Cardinality({p[2] : p \in given}) = Cardinality(given)

\* C22: a run that has ended with a non-zero error counter has left every
\* file of the poster directory as it found it.
C22_DirectoryKept ==
    (pc = "idle" /\ runs > 0 /\ errors > 0) => files = files_at_start

\* C23: the step of prepare_event that rejects an event for its time zone
\* makes no call of try_get_output and leaves the catalogue, the digest
\* map and the slot files as they were.
C23_RejectedLeavesCache ==
    [][(pc = "prepare" /\ pc' = "prepare" /\ cur' = cur + 1
          /\ Diag("MissingTimeZone", input_events[cur], None) \in diags')
       => UNCHANGED <<posters, by_sha256, files, calls>>]_vars
\* the first event of a run was given a slot and the second was rejected
\* for its time zone
C23_Witness ==
    /\ pc = "prepare"
    /\ cur = 3
    /\ Len(output_events) = 1
    /\ Len(posters) = 1
    /\ Diag("MissingTimeZone", input_events[2], None) \in diags

\* C24: a run that has exited with failure status has replaced neither
\* state.json nor data.json.
C24_Pair ==
    (pc = "idle" /\ exit_code = Some("FAILURE")) => written = {}
====
